---------------------------- MODULE Spec2Model ----------------------------
(***************************************************************************)
(* Model of bot.py: a Telegram bot whose command handlers are gated by a   *)
(* set of unlocked user ids kept in bot_data["users"] and stored by        *)
(* PicklePersistence.                                                      *)
(*                                                                         *)
(* The Application is built without concurrent_updates, so updates are     *)
(* processed one after the other: a handler invocation is one atomic step. *)
(* Everything a handler does is recorded, in order, in the events of the   *)
(* `last` invocation record: spawns, lookups, sends and replies, each with *)
(* its outcome (a call to the outside world either returns or raises).     *)
(***************************************************************************)
EXTENDS Integers, Sequences, FiniteSets, TLC

\* -------------------------------------------------------------- bounds
NumUsers == 2
MaxArgs == 2
MaxTail == 3

Users == 1..NumUsers

\* ------------------------------------------------- the secret key, args
\* os.getenv("SECRET_KEY") is a string, or None when the variable is unset.
\* context.args holds non-empty strings; None equals none of them.
Unset == "<None>"
Keys == {"k", "w"}
SecretChoices == {"k", Unset}

RECURSIVE SeqsUpTo(_, _)
SeqsUpTo(S, n) ==
    IF n = 0 THEN {<<>>}
    ELSE LET shorter == SeqsUpTo(S, n - 1)
         IN  shorter \cup {Append(s, x) : s \in {t \in shorter : Len(t) = n - 1}, x \in S}

ArgLists == SeqsUpTo(Keys, MaxArgs)

\* -------------------------------------------------------- message texts
\* A text is a sequence of one-character strings.
BroadcastCommand == <<"/", "b", "r", "o", "a", "d", "c", "a", "s", "t">>
BotUsername == <<"x">>
CommandChars == {"b", "r", "o", "a", "d", "c", "s", "t", "x"}
Whitespace == {" "}
TailChars == {" ", "x", ".", "@"}
Texts == {BroadcastCommand \o tail : tail \in SeqsUpTo(TailChars, MaxTail)}

\* text[n:] of Python, n counted from 0
Slice(s, n) == IF n >= Len(s) THEN <<>> ELSE SubSeq(s, n + 1, Len(s))

RECURSIVE LStrip(_)
LStrip(s) == IF s # <<>> /\ s[1] \in Whitespace THEN LStrip(Tail(s)) ELSE s

RECURSIVE RStrip(_)
RStrip(s) ==
    IF s # <<>> /\ s[Len(s)] \in Whitespace THEN RStrip(SubSeq(s, 1, Len(s) - 1)) ELSE s

\* str.strip()
Strip(s) == RStrip(LStrip(s))

\* number of consecutive command characters of s from position i (1-based)
RECURSIVE Run(_, _)
Run(s, i) == IF i <= Len(s) /\ s[i] \in CommandChars THEN 1 + Run(s, i + 1) ELSE 0

\* Length of the bot_command entity at offset 0: "/" and a run of command
\* characters, with "@" and a run of name characters when they follow; 0 when
\* the text does not start with a command.
CommandEntityLength(text) ==
    IF text = <<>> \/ text[1] # "/" THEN 0
    ELSE LET r == Run(text, 2)
             at == 2 + r
         IN  IF r = 0 THEN 0
             ELSE IF at <= Len(text) /\ text[at] = "@" /\ Run(text, at + 1) > 0
                  THEN 1 + r + 1 + Run(text, at + 1)
                  ELSE 1 + r

\* The part of the text after the command token.
AfterCommand(text) == Slice(text, CommandEntityLength(text))

\* CommandHandler.check_update: the command token without "/" is split at "@";
\* the name must be the handler's command and what follows "@", when present,
\* the bot's username.
Routes(text, command) ==
    LET n == CommandEntityLength(text)
        token == SubSeq(text, 2, n)
        r == Run(text, 2)
        name == SubSeq(token, 1, r)
        addressee == IF r < Len(token) THEN SubSeq(token, r + 2, Len(token)) ELSE BotUsername
    IN  n > 0 /\ name = command /\ addressee = BotUsername


\* ------------------------------------------------------------- events
\* One call a handler makes to the outside world, and whether it returned
\* (ok) or raised.
Ev(type, msg, to, text, n, ok) ==
    [type |-> type, msg |-> msg, to |-> to, text |-> text, n |-> n, ok |-> ok]

\* update.message.reply_text(...): a reply into the invoker's chat
Reply(to, msg, ok) == Ev("reply", msg, to, <<>>, 0, ok)
\* subprocess.Popen(["bash", <script>])
Spawn(script, ok) == Ev("spawn", script, 0, <<>>, 0, ok)
\* subprocess.check_output(["curl", "-s", "ifconfig.me"])
IpLookup(ok) == Ev("ip_lookup", "", 0, <<>>, 0, ok)
\* JavaServer("localhost", 25565).status()
StatusQuery(ok) == Ev("status_query", "", 0, <<>>, 0, ok)
\* context.bot.send_message(chat_id=user, text=message)
Send(to, text, ok) == Ev("send", "", to, text, 0, ok)
\* context.bot.set_my_commands(commands)
SetMyCommands(ok) == Ev("set_my_commands", "", 0, <<>>, 0, ok)

\* What one handler invocation did: its calls in order, the authorization set
\* it leaves, and whether it ended by an exception.
Outcome(events, users_, raised) == [events |-> events, users |-> users_, raised |-> raised]

\* A handler that ends on a reply: it raises exactly when the reply does.
EndsOnReply(before, to, msg, ok, users_) ==
    Outcome(Append(before, Reply(to, msg, ok)), users_, ~ok)

\* ------------------------------------------------------------ handlers
start_AnyKey(user_id, args, users_, key, replyOk) ==
    IF user_id \in users_ THEN EndsOnReply(<<>>, user_id, "already_unlocked", replyOk, users_)
    ELSE IF Len(args) = 1
         THEN IF replyOk THEN EndsOnReply(<<>>, user_id, "welcome", TRUE, users_ \cup {user_id})
              ELSE EndsOnReply(<<>>, user_id, "welcome", FALSE, users_)
         ELSE EndsOnReply(<<>>, user_id, "ask_key", replyOk, users_)

start_FirstArg(user_id, args, users_, key, replyOk) ==
    IF user_id \in users_ THEN EndsOnReply(<<>>, user_id, "already_unlocked", replyOk, users_)
    ELSE IF Len(args) >= 1
         THEN IF args[1] # key
              THEN EndsOnReply(<<>>, user_id, "wrong_key", replyOk, users_)
              ELSE IF replyOk
                   THEN EndsOnReply(<<>>, user_id, "welcome", TRUE, users_ \cup {user_id})
                   ELSE EndsOnReply(<<>>, user_id, "welcome", FALSE, users_)
         ELSE EndsOnReply(<<>>, user_id, "ask_key", replyOk, users_)

start_SilentWrongKey(user_id, args, users_, key, replyOk) ==
    IF user_id \in users_ THEN EndsOnReply(<<>>, user_id, "already_unlocked", replyOk, users_)
    ELSE IF Len(args) = 1
         THEN IF args[1] # key
              THEN Outcome(<<>>, users_, FALSE)
              ELSE IF replyOk
                   THEN EndsOnReply(<<>>, user_id, "welcome", TRUE, users_ \cup {user_id})
                   ELSE EndsOnReply(<<>>, user_id, "welcome", FALSE, users_)
         ELSE EndsOnReply(<<>>, user_id, "ask_key", replyOk, users_)

\* start: the welcome reply comes before the id is added, so a reply that
\* raises leaves the set as it was.
start(user_id, args, users_, key, replyOk) ==
    IF user_id \in users_ THEN EndsOnReply(<<>>, user_id, "already_unlocked", replyOk, users_)
    ELSE IF Len(args) = 1
         THEN IF args[1] # key
              THEN EndsOnReply(<<>>, user_id, "wrong_key", replyOk, users_)
              ELSE IF replyOk
                   THEN EndsOnReply(<<>>, user_id, "welcome", TRUE, users_ \cup {user_id})
                   ELSE EndsOnReply(<<>>, user_id, "welcome", FALSE, users_)
         ELSE EndsOnReply(<<>>, user_id, "ask_key", replyOk, users_)

start_server_LookupFirst(user_id, users_, spawnOk, reply1Ok, ipOk, reply2Ok) ==
    IF user_id \notin users_
    THEN EndsOnReply(<<>>, user_id, "denied_start_server", reply1Ok, users_)
    ELSE IF ~spawnOk
    THEN EndsOnReply(<<Spawn("start_server.sh", FALSE)>>, user_id, "start_error", reply1Ok, users_)
    ELSE IF ~ipOk
    THEN EndsOnReply(<<Spawn("start_server.sh", TRUE), IpLookup(FALSE)>>,
                     user_id, "ip_error", reply2Ok, users_)
    ELSE IF ~reply1Ok
    THEN EndsOnReply(<<Spawn("start_server.sh", TRUE), IpLookup(TRUE)>>,
                     user_id, "start_ok", FALSE, users_)
    ELSE EndsOnReply(<<Spawn("start_server.sh", TRUE), IpLookup(TRUE),
                       Reply(user_id, "start_ok", TRUE)>>,
                     user_id, "ip_address", reply2Ok, users_)

start_server(user_id, users_, spawnOk, reply1Ok, ipOk, reply2Ok) ==
    IF user_id \notin users_
    THEN EndsOnReply(<<>>, user_id, "denied_start_server", reply1Ok, users_)
    ELSE IF ~spawnOk
    THEN EndsOnReply(<<Spawn("start_server.sh", FALSE)>>, user_id, "start_error", reply1Ok, users_)
    ELSE IF ~reply1Ok
    THEN EndsOnReply(<<Spawn("start_server.sh", TRUE)>>, user_id, "start_ok", FALSE, users_)
    ELSE LET sofar == <<Spawn("start_server.sh", TRUE), Reply(user_id, "start_ok", TRUE)>>
         IN  IF ~ipOk
             THEN EndsOnReply(Append(sofar, IpLookup(FALSE)), user_id, "ip_error", reply2Ok, users_)
             ELSE EndsOnReply(Append(sofar, IpLookup(TRUE)), user_id, "ip_address", reply2Ok, users_)

stop_server_Propagates(user_id, users_, spawnOk, replyOk) ==
    IF user_id \notin users_
    THEN EndsOnReply(<<>>, user_id, "denied_stop_server", replyOk, users_)
    ELSE IF ~spawnOk
    THEN Outcome(<<Spawn("stop_server.sh", FALSE)>>, users_, TRUE)
    ELSE EndsOnReply(<<Spawn("stop_server.sh", TRUE)>>, user_id, "stop_ok", replyOk, users_)

stop_server(user_id, users_, spawnOk, replyOk) ==
    IF user_id \notin users_
    THEN EndsOnReply(<<>>, user_id, "denied_stop_server", replyOk, users_)
    ELSE IF ~spawnOk
    THEN EndsOnReply(<<Spawn("stop_server.sh", FALSE)>>, user_id, "stop_error", replyOk, users_)
    ELSE EndsOnReply(<<Spawn("stop_server.sh", TRUE)>>, user_id, "stop_ok", replyOk, users_)

server_ip_Ungated(user_id, users_, ipOk, replyOk) ==
    IF ~ipOk
    THEN EndsOnReply(<<IpLookup(FALSE)>>, user_id, "ip_error", replyOk, users_)
    ELSE EndsOnReply(<<IpLookup(TRUE)>>, user_id, "ip_address", replyOk, users_)

server_ip(user_id, users_, ipOk, replyOk) ==
    IF user_id \notin users_
    THEN EndsOnReply(<<>>, user_id, "denied", replyOk, users_)
    ELSE IF ~ipOk
    THEN EndsOnReply(<<IpLookup(FALSE)>>, user_id, "ip_error", replyOk, users_)
    ELSE EndsOnReply(<<IpLookup(TRUE)>>, user_id, "ip_address", replyOk, users_)

\* The three shapes of a status: a player sample, a player count only, nobody.
Statuses == {"sample", "online", "empty"}

status_message(status) ==
    IF status = "sample" THEN "status_player_list"
    ELSE IF status = "online" THEN "status_player_count"
    ELSE "status_no_players"

server_status(user_id, users_, queryOk, status, replyOk) ==
    IF user_id \notin users_
    THEN EndsOnReply(<<>>, user_id, "denied", replyOk, users_)
    ELSE IF ~queryOk
    THEN EndsOnReply(<<StatusQuery(FALSE)>>, user_id, "status_error", replyOk, users_)
    ELSE EndsOnReply(<<StatusQuery(TRUE)>>, user_id, status_message(status), replyOk, users_)

help_command(user_id, users_, replyOk, setOk) ==
    IF user_id \notin users_
    THEN EndsOnReply(<<>>, user_id, "denied", replyOk, users_)
    ELSE IF ~replyOk
    THEN EndsOnReply(<<>>, user_id, "help_text", FALSE, users_)
    ELSE Outcome(<<Reply(user_id, "help_text", TRUE), SetMyCommands(setOk)>>, users_, ~setOk)

\* len("/broadcast ")
BroadcastPrefix == BroadcastCommand \o <<" ">>

\* The sends of the loop over bot_data["users"], in the order the set yields
\* its elements; a send to an id of failing raises and is caught.
Sends(order, message, failing) ==
    [i \in 1..Len(order) |-> Send(order[i], message, order[i] \notin failing)]

\* failed: the recipients whose send raised, in order
Failed(order, failing) == SelectSeq(order, LAMBDA u : u \in failing)

BroadcastReply(user_id, failed, replyOk) ==
    IF failed # <<>>
    THEN Ev("reply", "sent_with_failures", user_id, <<>>, Len(failed), replyOk)
    ELSE Reply(user_id, "sent_to_all", replyOk)

broadcast_StopsAtFailure(user_id, text, users_, order, failing, replyOk) ==
    IF user_id \notin users_
    THEN EndsOnReply(<<>>, user_id, "denied_broadcast", replyOk, users_)
    ELSE LET message == Strip(Slice(text, Len(BroadcastPrefix)))
             firstBad == IF \E i \in 1..Len(order) : order[i] \in failing
                         THEN CHOOSE i \in 1..Len(order) :
                                  /\ order[i] \in failing
                                  /\ \A j \in 1..(i - 1) : order[j] \notin failing
                         ELSE Len(order)
             tried == SubSeq(order, 1, firstBad)
         IN  IF message = <<>>
             THEN EndsOnReply(<<>>, user_id, "empty_message_error", replyOk, users_)
             ELSE Outcome(Append(Sends(tried, message, failing),
                                 BroadcastReply(user_id, Failed(tried, failing), replyOk)),
                          users_, ~replyOk)

broadcast(user_id, text, users_, order, failing, replyOk) ==
    IF user_id \notin users_
    THEN EndsOnReply(<<>>, user_id, "denied_broadcast", replyOk, users_)
    ELSE IF Strip(text) = <<>>
    THEN EndsOnReply(<<>>, user_id, "no_text_error", replyOk, users_)
    ELSE LET message == Strip(Slice(text, Len(BroadcastPrefix)))
         IN  IF message = <<>>
             THEN EndsOnReply(<<>>, user_id, "empty_message_error", replyOk, users_)
             ELSE Outcome(Append(Sends(order, message, failing),
                                 BroadcastReply(user_id, Failed(order, failing), replyOk)),
                          users_, ~replyOk)

\* The orders in which iterating a set may yield its elements.
Orders(S) ==
    {o \in [1..Cardinality(S) -> S] : \A i, j \in 1..Cardinality(S) : o[i] = o[j] => i = j}


\* --------------------------------------------------------------- state
VARIABLES
    users,       \* context.bot_data["users"], the authorization set in memory
    persisted,   \* the authorization set stored in data.pkl
    secretKey,   \* os.getenv("SECRET_KEY")
    presented,   \* history: the ids that sent /start with exactly [secretKey]
    last         \* history: the handler invocation that ended last

vars == <<users, persisted, secretKey, presented, last>>

\* No handler has run since the process started.
NoInvocation ==
    [cmd |-> "none", user |-> 0, args |-> <<>>, text |-> <<>>,
     before |-> {}, after |-> {}, events |-> <<>>, raised |-> FALSE]

\* A first run: data.pkl does not exist, bot_data is empty.
Init ==
    /\ users = {}
    /\ persisted = {}
    /\ secretKey \in SecretChoices
    /\ presented = {}
    /\ last = NoInvocation

\* The dispatcher runs one handler to its end.
Invoke(cmd, user_id, args, text, outcome) ==
    /\ users' = outcome.users
    /\ last' = [cmd |-> cmd, user |-> user_id, args |-> args, text |-> text,
                before |-> users, after |-> outcome.users,
                events |-> outcome.events, raised |-> outcome.raised]
    /\ presented' = IF cmd = "start" /\ args = <<secretKey>>
                    THEN presented \cup {user_id}
                    ELSE presented
    /\ UNCHANGED <<persisted, secretKey>>

Start ==
    \E user_id \in Users, args \in ArgLists, replyOk \in BOOLEAN :
        Invoke("start", user_id, args, <<>>, start(user_id, args, users, secretKey, replyOk))

StartServer ==
    \E user_id \in Users, spawnOk, reply1Ok, ipOk, reply2Ok \in BOOLEAN :
        Invoke("start_server", user_id, <<>>, <<>>,
               start_server(user_id, users, spawnOk, reply1Ok, ipOk, reply2Ok))

StopServer ==
    \E user_id \in Users, spawnOk, replyOk \in BOOLEAN :
        Invoke("stop_server", user_id, <<>>, <<>>, stop_server(user_id, users, spawnOk, replyOk))

ServerIp ==
    \E user_id \in Users, ipOk, replyOk \in BOOLEAN :
        Invoke("server_ip", user_id, <<>>, <<>>, server_ip(user_id, users, ipOk, replyOk))

ServerStatus ==
    \E user_id \in Users, queryOk, replyOk \in BOOLEAN, status \in Statuses :
        Invoke("server_status", user_id, <<>>, <<>>,
               server_status(user_id, users, queryOk, status, replyOk))

Help ==
    \E user_id \in Users, replyOk, setOk \in BOOLEAN :
        Invoke("help", user_id, <<>>, <<>>, help_command(user_id, users, replyOk, setOk))

\* The broadcast handler on a text the dispatcher routes to it.  The order
\* and the failing recipients are drawn only where the loop runs.
BroadcastFrom(texts) ==
    \E user_id \in Users, text \in texts, replyOk \in BOOLEAN :
        /\ Routes(text, Tail(BroadcastCommand))
        /\ \E order \in Orders(users), failing \in SUBSET users :
               Invoke("broadcast", user_id, <<>>, text,
                      broadcast(user_id, text, users, order, failing, replyOk))

\* "/broadcast" and "/broadcast x"
ShortTexts == {BroadcastCommand, BroadcastPrefix \o <<"x">>}

Broadcast == BroadcastFrom(ShortTexts)

\* The Application's periodic update_persistence (PicklePersistence's
\* update_interval): bot_data is written to data.pkl.
UpdatePersistence ==
    /\ persisted' = users
    /\ UNCHANGED <<users, secretKey, presented, last>>

\* run_polling ends on a stop signal: the Application shuts down, which writes
\* bot_data to data.pkl; main() then runs again and loads it.
StopAndRestart ==
    /\ persisted' = users
    /\ users' = persisted'
    /\ last' = NoInvocation
    /\ UNCHANGED <<secretKey, presented>>

\* The process dies without shutting down (kill -9, power loss); main() runs
\* again and loads what data.pkl held.
CrashAndRestart ==
    /\ users' = persisted
    /\ last' = NoInvocation
    /\ UNCHANGED <<persisted, secretKey, presented>>

Next ==
    \/ Start
    \/ StartServer
    \/ StopServer
    \/ ServerIp
    \/ ServerStatus
    \/ Help
    \/ Broadcast
    \/ UpdatePersistence
    \/ StopAndRestart
    \/ CrashAndRestart

Spec == Init /\ [][Next]_vars

\* ------------------------------------------- one broadcast, every text
\* Any set of ids can be the authorization set (each id unlocks by itself);
\* from each, one broadcast is explored over every text of Texts, every
\* iteration order and every set of failing recipients.
InitBroadcast ==
    /\ users \in SUBSET Users
    /\ persisted = users
    /\ secretKey = "k"
    /\ presented = users
    /\ last = NoInvocation

BroadcastOnce ==
    /\ last = NoInvocation
    /\ BroadcastFrom(Texts)

SpecBroadcast == InitBroadcast /\ [][BroadcastOnce]_vars


\* ------------------------------------------------------------ properties
Privileged ==
    {"start_server", "stop_server", "server_ip", "server_status", "broadcast", "help"}

SideEffects == {"spawn", "ip_lookup", "status_query", "send", "set_my_commands"}

Denial(cmd) ==
    IF cmd = "start_server" THEN "denied_start_server"
    ELSE IF cmd = "stop_server" THEN "denied_stop_server"
    ELSE IF cmd = "broadcast" THEN "denied_broadcast"
    ELSE "denied"

\* the positions of the last invocation's events
Steps == DOMAIN last.events
Event(i) == last.events[i]
Unlocked == last.user \in last.before
IsReply(i, msg) == Event(i).type = "reply" /\ Event(i).msg = msg /\ Event(i).to = last.user
OnlyReply(msg) == Len(last.events) = 1 /\ IsReply(1, msg)

\* C1: a privileged side effect (script spawn, IP lookup, status query,
\* broadcast send, publishing the command list) happens only in an invocation
\* whose invoker was in the authorization set at the check; a privileged command
\* from a user outside the set does nothing but send the one denial reply.
C1_SideEffectsOnlyWhenUnlocked ==
    /\ \A i \in Steps : Event(i).type \in SideEffects => Unlocked
    /\ (last.cmd \in Privileged /\ ~Unlocked) =>
           /\ OnlyReply(Denial(last.cmd))
           /\ last.after = last.before

C1_Witness ==
    /\ last.cmd = "server_ip"
    /\ ~Unlocked
    /\ last.before # {}
    /\ OnlyReply("denied")

\* C2: an id is in the authorization set only if that id sent /start with
\* exactly one argument equal to the configured secret key; an invocation that
\* changes the set is such a /start and adds the invoker alone.
C2_OnlyKeyHoldersUnlocked ==
    /\ users \subseteq presented
    /\ persisted \subseteq presented
    /\ last.after # last.before =>
           /\ last.cmd = "start"
           /\ last.args = <<secretKey>>
           /\ last.after = last.before \cup {last.user}

C2_Witness ==
    /\ last.cmd = "start"
    /\ last.user \in last.after \ last.before
    /\ last.before # {}

\* C3: a /start with the correct key as its only argument from a user not yet
\* unlocked leaves the user in the authorization set, and every later
\* privileged command of a user who sent such a /start passes the check.
C3_CorrectKeyUnlocks ==
    /\ (last.cmd = "start" /\ ~Unlocked /\ last.args = <<secretKey>>) =>
           last.user \in last.after
    /\ (last.cmd \in Privileged /\ last.user \in presented) => Unlocked

\* C4: an id in the authorization set stays in it, across commands and restarts.
C4_NeverRemoved == [][users \subseteq users']_vars

ErrorFor(e) ==
    IF e.type = "spawn" /\ e.msg = "start_server.sh" THEN "start_error"
    ELSE IF e.type = "spawn" THEN "stop_error"
    ELSE IF e.type = "ip_lookup" THEN "ip_error"
    ELSE "status_error"

SuccessFor(e) ==
    IF e.type = "spawn" /\ e.msg = "start_server.sh" THEN {"start_ok"}
    ELSE IF e.type = "spawn" THEN {"stop_ok"}
    ELSE IF e.type = "ip_lookup" THEN {"ip_address"}
    ELSE {status_message(st) : st \in Statuses}

Actions == {"spawn", "ip_lookup", "status_query"}

\* C5: when the action of start_server, stop_server, server_ip or server_status
\* raises, the handler's next and last call is the reply with that action's
\* error message to the invoker; the handler raises only if that reply does; no
\* success reply for the failed action is sent and the set is unchanged.
C5_ActionFailureReported ==
    \A i \in Steps :
        (Event(i).type \in Actions /\ ~Event(i).ok) =>
            /\ Len(last.events) = i + 1
            /\ IsReply(i + 1, ErrorFor(Event(i)))
            /\ last.raised => ~Event(i + 1).ok
            /\ \A j \in Steps : ~(Event(j).type = "reply" /\ Event(j).msg \in SuccessFor(Event(i)))
            /\ last.after = last.before

C5_Witness ==
    /\ last.cmd = "server_status"
    /\ Len(last.events) = 2
    /\ Event(1) = StatusQuery(FALSE)
    /\ Event(2) = Reply(last.user, "status_error", TRUE)
    /\ ~last.raised

\* C6: every invocation of a handler in which no reply fails to be sent sends
\* at least one reply to the invoker.
C6_AlwaysReplies ==
    (last.cmd # "none" /\ \A i \in Steps : Event(i).type = "reply" => Event(i).ok) =>
        \E i \in Steps : Event(i).type = "reply" /\ Event(i).to = last.user /\ Event(i).ok

C6_Witness ==
    /\ last.cmd = "start"
    /\ ~Unlocked
    /\ Len(last.args) = 1
    /\ last.args[1] # secretKey
    /\ last.events = <<Reply(last.user, "wrong_key", TRUE)>>

\* C7: an authorized broadcast sends the text that follows the command token,
\* stripped; when that is empty it sends nothing and replies with the
\* empty-message error.
C7_BroadcastsTextAfterCommand ==
    (last.cmd = "broadcast" /\ Unlocked) =>
        LET rest == Strip(AfterCommand(last.text))
        IN  IF rest = <<>>
            THEN OnlyReply("empty_message_error")
            ELSE /\ \E i \in Steps : Event(i).type = "send"
                 /\ \A i \in Steps : Event(i).type = "send" => Event(i).text = rest

SendsTo(u) == {i \in Steps : Event(i).type = "send" /\ Event(i).to = u}
FailedSends == {i \in Steps : Event(i).type = "send" /\ ~Event(i).ok}

\* C8: an authorized broadcast whose message is not empty attempts exactly one
\* send to each id of the authorization set, the sender included, and to no
\* other id, whether or not earlier sends failed; its final reply says all
\* users were reached exactly when no send failed, and otherwise carries the
\* number of failed sends.
C8_BroadcastReachesEveryone ==
    (/\ last.cmd = "broadcast"
     /\ Unlocked
     /\ Strip(Slice(last.text, Len(BroadcastPrefix))) # <<>>) =>
        LET n == Len(last.events)
        IN  /\ \A u \in last.before : Cardinality(SendsTo(u)) = 1
            /\ \A i \in Steps : Event(i).type = "send" => Event(i).to \in last.before
            /\ n = Cardinality(last.before) + 1
            /\ Event(n).type = "reply"
            /\ Event(n).to = last.user
            /\ Event(n).msg = "sent_to_all" <=> FailedSends = {}
            /\ Event(n).msg # "sent_to_all" =>
                   /\ Event(n).msg = "sent_with_failures"
                   /\ Event(n).n = Cardinality(FailedSends)

C8_Witness ==
    /\ last.cmd = "broadcast"
    /\ Len(last.events) = 3
    /\ Event(1).type = "send" /\ ~Event(1).ok /\ Event(1).to # last.user
    /\ Event(2).type = "send" /\ Event(2).ok /\ Event(2).to = last.user
    /\ Event(3).msg = "sent_with_failures" /\ Event(3).n = 1

\* C9: /start leaves the authorization set unchanged when the invoker is
\* already unlocked, when the single argument is not the secret key, and when
\* the number of arguments is not one; the reply is the already-unlocked
\* message, the wrong-key message and the prompt for the key respectively.
C9_StartLeavesSetUnchanged ==
    last.cmd = "start" =>
        /\ Unlocked => (last.after = last.before /\ OnlyReply("already_unlocked"))
        /\ (~Unlocked /\ Len(last.args) = 1 /\ last.args # <<secretKey>>) =>
               (last.after = last.before /\ OnlyReply("wrong_key"))
        /\ (~Unlocked /\ Len(last.args) # 1) =>
               (last.after = last.before /\ OnlyReply("ask_key"))

C9_Witness ==
    /\ last.cmd = "start"
    /\ ~Unlocked
    /\ Len(last.args) = 2
    /\ last.args[1] = secretKey
    /\ OnlyReply("ask_key")

\* C10: in start_server by an unlocked user the IP lookup comes only after a
\* spawn that did not raise and after the start-success reply was sent; the IP
\* reply comes after the start-success reply; a spawn that raises is followed
\* by the start-error reply alone.
C10_LookupAfterStartReply ==
    (last.cmd = "start_server" /\ Unlocked) =>
        /\ \A i \in Steps :
               (\/ Event(i).type = "ip_lookup"
                \/ (Event(i).type = "reply" /\ Event(i).msg \in {"ip_address", "ip_error"})) =>
                   /\ \E j \in 1..(i - 1) : Event(j) = Spawn("start_server.sh", TRUE)
                   /\ \E j \in 1..(i - 1) : Event(j) = Reply(last.user, "start_ok", TRUE)
        /\ (\E i \in Steps : Event(i) = Spawn("start_server.sh", FALSE)) =>
               /\ Len(last.events) = 2
               /\ Event(1) = Spawn("start_server.sh", FALSE)
               /\ IsReply(2, "start_error")

C10_Witness ==
    /\ last.cmd = "start_server"
    /\ last.events = <<Spawn("start_server.sh", TRUE), Reply(last.user, "start_ok", TRUE),
                       IpLookup(TRUE), Reply(last.user, "ip_address", TRUE)>>

=============================================================================
